---- MODULE Spec2Model ----
(***************************************************************************)
(* Model of src/app.py: a Flask application with one endpoint,             *)
(* POST /process, which checks a bearer token, validates the JSON body,    *)
(* constructs a ChatGroq client, sends one prompt to the completion        *)
(* service and returns what came back.                                     *)
(*                                                                         *)
(* Python values are modelled as tagged tuples of strings so that None,    *)
(* the empty string and the string "None" stay distinct:                   *)
(*   None -> <<"None">>     "abc" -> <<"str", "abc">>     5 -> <<"int","5">>*)
(*   a dict -> <<"dict", f>> with f a function from its keys to values.    *)
(* Several requests are in flight at once (a threaded WSGI server); each   *)
(* one moves through the statements of process_text in program order.      *)
(* Lines 7 and 50 of app.py carry one stray leading blank; they are read   *)
(* as the module-level and function-level statements they stand among.     *)
(***************************************************************************)
EXTENDS Integers, Sequences, FiniteSets, TLC

\* ------------------------------------------------------------------ bounds
NumRequests == 2        \* request slots handled concurrently
MaxDays == 1            \* calendar days that may pass after process start

Requests == 1..NumRequests

\* ------------------------------------------------------- python primitives
PyNone == <<"None">>
PyStr(s) == <<"str", s>>
PyInt(s) == <<"int", s>>
PyDict(f) == <<"dict", f>>

IsNone(v) == v[1] = "None"
IsDict(v) == v[1] = "dict"

\* Python truthiness, as used by `not x`
Truthy(v) ==
    CASE v[1] = "None" -> FALSE
      [] v[1] = "str"  -> v[2] /= ""
      [] v[1] = "int"  -> v[2] /= "0"
      [] v[1] = "dict" -> DOMAIN v[2] /= {}
      [] OTHER         -> TRUE

\* str(v) / f"{v}"
Format(v) ==
    CASE v[1] = "None" -> "None"
      [] v[1] = "str"  -> v[2]
      [] v[1] = "int"  -> v[2]
      [] OTHER         -> "<object>"

\* --------------------------------------------------------------- calendar
Digits == <<"0", "1", "2", "3", "4", "5", "6", "7", "8", "9">>
Digit(n) == Digits[n + 1]
Pad2(n) == Digit((n \div 10) % 10) \o Digit(n % 10)
Pad4(n) == Digit((n \div 1000) % 10) \o Digit((n \div 100) % 10) \o Pad2(n)

IsLeap(y) == (y % 4 = 0 /\ y % 100 /= 0) \/ y % 400 = 0
DaysInMonth(y, m) ==
    CASE m = 2              -> IF IsLeap(y) THEN 29 ELSE 28
      [] m \in {4, 6, 9, 11} -> 30
      [] OTHER              -> 31

NextDay(dt) ==
    IF dt.d < DaysInMonth(dt.y, dt.m) THEN [dt EXCEPT !.d = dt.d + 1]
    ELSE IF dt.m < 12 THEN [dt EXCEPT !.m = dt.m + 1, !.d = 1]
    ELSE [y |-> dt.y + 1, m |-> 1, d |-> 1]

\* strftime('%Y-%m-%d')
Strftime(dt) == Pad4(dt.y) \o "-" \o Pad2(dt.m) \o "-" \o Pad2(dt.d)

\* dates on which the process may be started
StartDates == { [y |-> 2024, m |-> 12, d |-> 31] }

\* ------------------------------------------------------------ environment
\* values of the API_SECRET_KEY / GROQ_API_KEY environment variables;
\* os.getenv gives None for an unset variable
SecretValues == { PyNone, PyStr("s3cret") }
GroqKeyValues == { PyNone, PyStr(""), PyStr("gsk_1") }

DEFAULT_MODEL == "llama3-70b-8192"
DEFAULT_TEMPERATURE == "0.5"
DEFAULT_MAX_TOKENS == 1024

\* request.headers.get("Authorization"): None when the header is absent
AuthHeaders ==
    { PyNone, PyStr("Bearer s3cret"), PyStr("Bearer None"), PyStr("s3cret") }

\* request bodies: unparseable, or a JSON document
TextValues == { "", "spent 500 at Domino's" }
Bodies ==
    { [kind |-> "malformed"] }
    \cup { [kind |-> "json", value |-> PyNone] }
    \cup { [kind |-> "json", value |-> PyInt("5")] }
    \cup { [kind |-> "json", value |-> PyDict(<<>>)] }
    \cup { [kind |-> "json", value |-> PyDict([note |-> PyStr("x")])] }
    \cup { [kind |-> "json", value |-> PyDict([text |-> PyStr(t)])] : t \in TextValues }

\* outcomes of llm.invoke: an AIMessage with a content, or an exception
Replies ==
    { [kind |-> "message", content |-> c] : c \in { "{\"Amount\": 500}", "null" } }
    \cup { [kind |-> "raise", msg |-> "Connection error." ] }


\* ------------------------------------------------------------------ state
VARIABLES
    API_SECRET_KEY,   \* module global, read from the environment at import
    GROQ_API_KEY,     \* module global, read from the environment at import
    current_date,     \* module global, formatted at import
    chatGroqRaises,   \* whether ChatGroq(...) raises for this configuration
    today,            \* the calendar date (datetime.today())
    uptime,           \* days elapsed since the process started
    pc,               \* per request: position in process_text
    request,          \* per request: Authorization header and body
    data,             \* per request: local `data`
    llm,              \* per request: local `llm`
    constructions,    \* per request: number of initialize_llm() calls made
    invoked,          \* per request: prompts passed to llm.invoke, with the date of the call
    returned,         \* per request: what llm.invoke returned or raised
    response          \* per request: the HTTP response returned

config == <<API_SECRET_KEY, GROQ_API_KEY, current_date, chatGroqRaises>>
vars == <<API_SECRET_KEY, GROQ_API_KEY, current_date, chatGroqRaises, today, uptime,
          pc, request, data, llm, constructions, invoked, returned, response>>

\* -------------------------------------------------------------- responses
\* jsonify(value): a JSON response carrying the value
Jsonify(value) == [mimetype |-> "application/json", json |-> value]
ErrorDict(msg) == <<"dict", "error", msg>>
Response(body, status) == [status |-> status, body |-> body]
NoResponse == [status |-> 0, body |-> Jsonify(PyNone)]
NoRequest == [Authorization |-> PyNone, body |-> [kind |-> "none"]]
NoReply == [kind |-> "none"]

\* ----------------------------------------------------------------- prompt
\* system_prompt of process_transaction_message, with {current_date} substituted
SystemPrompt(date) ==
    "Your input is a transaction message extracted from voice. Extract structured details like Amount, "
    \o "Transaction Type, Bank Name, Card Type, Paid To, Merchant, Transaction Mode, Transaction Date, Reference Number, and Tag."
    \o "Transaction Type should be consistant either debit or credit"
    \o "transaction date formate in dd/mm/yy"
    \o "Tag meaning which category of spending: if Amazon, then Shopping; if Zomato, then Eating, etc."
    \o "Just return the JSON output only. Don't say anything else. If no output, return null."
    \o "If mode of payment is not mentioned, assume cash by default."
    \o "If any field is missing, set it as null."
    \o "Return only a JSON or a list of JSON objects."
    \o "Handle unstructured, grammatically incorrect, and short human input."
    \o "Example: 'today I spent 500 at Domino's' should be extracted correctly."
    \o "If the user mentions multiple items with multiple prices, generate a list of JSON objects."
    \o "\n        Today's date is " \o date
    \o ". You must use this date when interpreting time-related queries."
    \o "\n        For example:"
    \o "\n        - If a user says \"this month,\" assume it is the current month."
    \o "\n        "

\* variant: the message lands in the template's date slot as well
InputPromptSlotSlip(date, message) ==
    SystemPrompt(Format(message)) \o "\nMessage: " \o Format(message)

\* input_prompt = f"{system_prompt}\nMessage: {message}"
InputPrompt(date, message) == SystemPrompt(date) \o "\nMessage: " \o Format(message)

\* ---------------------------------------------------------- initialize_llm
ChatGroq(api_key, model, temperature, max_tokens) ==
    <<"ChatGroq", [api_key |-> api_key, model |-> model,
                   temperature |-> temperature, max_tokens |-> max_tokens]>>

\* variant: no check that the key is configured
initialize_llm_unchecked(groq_key, raises) ==
    IF raises THEN PyNone
    ELSE ChatGroq(Format(groq_key), DEFAULT_MODEL, DEFAULT_TEMPERATURE, DEFAULT_MAX_TOKENS)

initialize_llm(groq_key, raises) ==
    IF ~Truthy(groq_key) THEN PyNone
    ELSE IF raises THEN PyNone
    ELSE ChatGroq(Format(groq_key), DEFAULT_MODEL, DEFAULT_TEMPERATURE, DEFAULT_MAX_TOKENS)

\* ------------------------------------------------ process_transaction_message
\* variant: the content is parsed as JSON before it is returned
process_transaction_message_parsed(reply) ==
    IF reply.kind = "raise" THEN ErrorDict(reply.msg)
    ELSE IF reply.content = "null" THEN PyNone
    ELSE PyStr(reply.content)

\* the value returned once llm.invoke has produced `reply`
process_transaction_message(reply) ==
    IF reply.kind = "raise" THEN ErrorDict(reply.msg)
    ELSE IF "content" \in DOMAIN reply THEN PyStr(reply.content)
    ELSE PyStr("<object>")

\* ------------------------------------------------------------ process_text
\* if not auth_header or auth_header != f"Bearer {API_SECRET_KEY}"
Unauthorized(auth_header, secret) ==
    ~Truthy(auth_header) \/ auth_header /= PyStr("Bearer " \o Format(secret))

\* request.get_json(): the parsed document, or BadRequest
GetJson(body) ==
    IF body.kind = "json" THEN [raised |-> FALSE, value |-> body.value]
    ELSE [raised |-> TRUE, value |-> PyNone]

BadRequestMessage ==
    "400 Bad Request: The browser (or proxy) sent a request that this server could not understand."
TypeErrorMessage(v) == "argument of type '" \o v[1] \o "' is not iterable"

\* `"text" in data` for a truthy data
HasText(d) ==
    CASE d[1] = "dict" -> IF "text" \in DOMAIN d[2] THEN "yes" ELSE "no"
      [] OTHER         -> "TypeError"

idle == [r \in Requests |-> "idle"]

Init ==
    /\ API_SECRET_KEY \in SecretValues
    /\ GROQ_API_KEY \in GroqKeyValues
    /\ chatGroqRaises \in BOOLEAN
    /\ chatGroqRaises => Truthy(GROQ_API_KEY)
    /\ today \in StartDates
    /\ current_date = Strftime(today)
    /\ uptime = 0
    /\ pc = idle
    /\ request = [r \in Requests |-> NoRequest]
    /\ data = [r \in Requests |-> PyNone]
    /\ llm = [r \in Requests |-> PyNone]
    /\ constructions = [r \in Requests |-> 0]
    /\ invoked = [r \in Requests |-> <<>>]
    /\ returned = [r \in Requests |-> NoReply]
    /\ response = [r \in Requests |-> NoResponse]

Return(r, resp) ==
    /\ response' = [response EXCEPT ![r] = resp]
    /\ pc' = [pc EXCEPT ![r] = "done"]

\* a request arrives with its headers and body and is dispatched to
\* process_text, which checks the Authorization header (lines 87-90)
Receive(r, h, b) ==
    /\ pc[r] = "idle"
    /\ request' = [request EXCEPT ![r] = [Authorization |-> h, body |-> b]]
    /\ IF Unauthorized(h, API_SECRET_KEY)
       THEN Return(r, Response(Jsonify(ErrorDict("Unauthorized")), 401))
       ELSE /\ pc' = [pc EXCEPT ![r] = "validate"]
            /\ UNCHANGED response
    /\ UNCHANGED <<config, today, uptime, data, llm, constructions, invoked, returned>>

\* variant: the client is constructed before the body is validated
ValidateInputEager(r) ==
    /\ pc[r] = "validate"
    /\ llm' = [llm EXCEPT ![r] = initialize_llm(GROQ_API_KEY, chatGroqRaises)]
    /\ constructions' = [constructions EXCEPT ![r] = @ + 1]
    /\ LET got == GetJson(request[r].body)
           d == got.value
       IN IF got.raised
          THEN /\ Return(r, Response(Jsonify(ErrorDict(BadRequestMessage)), 500))
               /\ UNCHANGED data
          ELSE /\ data' = [data EXCEPT ![r] = d]
               /\ IF ~Truthy(d) \/ HasText(d) = "no"
                  THEN Return(r, Response(Jsonify(ErrorDict("Missing 'text' parameter")), 400))
                  ELSE IF HasText(d) = "TypeError"
                  THEN Return(r, Response(Jsonify(ErrorDict(TypeErrorMessage(d))), 500))
                  ELSE /\ pc' = [pc EXCEPT ![r] = "init"]
                       /\ UNCHANGED response
    /\ UNCHANGED <<config, today, uptime, request, invoked, returned>>

\* lines 93-96, with the handler's except clause (lines 107-109)
ValidateInput(r) ==
    /\ pc[r] = "validate"
    /\ LET got == GetJson(request[r].body)
           d == got.value
       IN IF got.raised
          THEN /\ Return(r, Response(Jsonify(ErrorDict(BadRequestMessage)), 500))
               /\ UNCHANGED data
          ELSE /\ data' = [data EXCEPT ![r] = d]
               /\ IF ~Truthy(d) \/ HasText(d) = "no"
                  THEN Return(r, Response(Jsonify(ErrorDict("Missing 'text' parameter")), 400))
                  ELSE IF HasText(d) = "TypeError"
                  THEN Return(r, Response(Jsonify(ErrorDict(TypeErrorMessage(d))), 500))
                  ELSE /\ pc' = [pc EXCEPT ![r] = "init"]
                       /\ UNCHANGED response
    /\ UNCHANGED <<config, today, uptime, request, llm, constructions, invoked, returned>>

\* lines 100-102
InitializeLlm(r) ==
    /\ pc[r] = "init"
    /\ LET l == initialize_llm(GROQ_API_KEY, chatGroqRaises)
       IN /\ llm' = [llm EXCEPT ![r] = l]
          /\ constructions' = [constructions EXCEPT ![r] = @ + 1]
          /\ IF IsNone(l)
             THEN Return(r, Response(Jsonify(ErrorDict("LLM initialization failed")), 500))
             ELSE /\ pc' = [pc EXCEPT ![r] = "process"]
                  /\ UNCHANGED response
    /\ UNCHANGED <<config, today, uptime, request, data, invoked, returned>>

\* line 104 and lines 44-74: the prompt is built and llm.invoke is called
Invoke(r) ==
    /\ pc[r] = "process"
    /\ IF IsNone(llm[r])
       THEN /\ Return(r, Response(Jsonify(ErrorDict("LLM system is not initialized.")), 200))
            /\ UNCHANGED invoked
       ELSE /\ invoked' = [invoked EXCEPT ![r] =
                   Append(@, [prompt |-> InputPrompt(current_date, data[r][2].text),
                              date |-> today])]
            /\ pc' = [pc EXCEPT ![r] = "waiting"]
            /\ UNCHANGED response
    /\ UNCHANGED <<config, today, uptime, request, data, llm, constructions, returned>>

\* variant: a failed call is tried again
CompleteRetry(r, reply) ==
    /\ pc[r] = "waiting"
    /\ returned' = [returned EXCEPT ![r] = reply]
    /\ IF reply.kind = "raise"
       THEN /\ pc' = [pc EXCEPT ![r] = "process"]
            /\ UNCHANGED response
       ELSE Return(r, Response(Jsonify(process_transaction_message(reply)), 200))
    /\ UNCHANGED <<config, today, uptime, request, data, llm, constructions, invoked>>

\* variant: the result travels through a slot shared by the requests in
\* flight, which another waiting request has cleared
CompleteShared(r, reply) ==
    /\ pc[r] = "waiting"
    /\ returned' = [returned EXCEPT ![r] = reply]
    /\ IF \E q \in Requests \ {r} : pc[q] = "waiting"
       THEN Return(r, Response(Jsonify(PyNone), 200))
       ELSE Return(r, Response(Jsonify(process_transaction_message(reply)), 200))
    /\ UNCHANGED <<config, today, uptime, request, data, llm, constructions, invoked>>

\* lines 74-79 and 105: llm.invoke returns or raises, and the handler responds
Complete(r, reply) ==
    /\ pc[r] = "waiting"
    /\ returned' = [returned EXCEPT ![r] = reply]
    /\ Return(r, Response(Jsonify(process_transaction_message(reply)), 200))
    /\ UNCHANGED <<config, today, uptime, request, data, llm, constructions, invoked>>

\* midnight passes
Tick ==
    /\ uptime < MaxDays
    /\ uptime' = uptime + 1
    /\ today' = NextDay(today)
    /\ UNCHANGED <<config, pc, request, data, llm, constructions, invoked, returned, response>>

Next ==
    \/ \E r \in Requests, h \in AuthHeaders, b \in Bodies : Receive(r, h, b)
    \/ \E r \in Requests : ValidateInput(r)
    \/ \E r \in Requests : InitializeLlm(r)
    \/ \E r \in Requests : Invoke(r)
    \/ \E r \in Requests, reply \in Replies : Complete(r, reply)
    \/ Tick

Spec == Init /\ [][Next]_vars

\* ============================================================== properties
Handled(r) == pc[r] /= "idle"
Done(r) == pc[r] = "done"

\* the header is exactly "Bearer " followed by the configured secret
BearerOfSecret(r) ==
    /\ ~IsNone(API_SECRET_KEY)
    /\ request[r].Authorization = PyStr("Bearer " \o API_SECRET_KEY[2])

\* the request passed the handler's own token check
PassedAuth(r) == Handled(r) /\ ~Unauthorized(request[r].Authorization, API_SECRET_KEY)

JsonBody(r) == request[r].body.kind = "json"
TextPresent(r) ==
    /\ JsonBody(r)
    /\ IsDict(request[r].body.value)
    /\ "text" \in DOMAIN request[r].body.value[2]
TextOf(r) == request[r].body.value[2].text[2]

Resp401 == Response(Jsonify(ErrorDict("Unauthorized")), 401)
Resp400 == Response(Jsonify(ErrorDict("Missing 'text' parameter")), 400)
RespInitFailed == Response(Jsonify(ErrorDict("LLM initialization failed")), 500)

\* C1: a handled request whose Authorization header is absent or is not
\* exactly "Bearer " + the configured secret is answered 401
\* {"error": "Unauthorized"}, whatever its body and whatever the secret,
\* also when no secret is configured.
C1_UnauthorizedIs401 ==
    \A r \in Requests :
        (Handled(r) /\ ~BearerOfSecret(r)) => (Done(r) /\ response[r] = Resp401)

\* C2: an authorized request whose JSON body lacks "text" or has text = ""
\* is answered 400 {"error": "Missing 'text' parameter"} and never reaches
\* the completion service.
C2_MissingOrEmptyTextIs400 ==
    \A r \in Requests :
        (Handled(r) /\ BearerOfSecret(r) /\ JsonBody(r)
            /\ (~TextPresent(r) \/ TextOf(r) = ""))
        => /\ pc[r] \in {"validate", "done"}
           /\ invoked[r] = <<>>
           /\ Done(r) => response[r] = Resp400

\* C3: when llm.invoke raises for an authorized request with a text field,
\* the response is 500 with body {"error": <message>}.
C3_FailedCallIs500 ==
    \A r \in Requests :
        (BearerOfSecret(r) /\ returned[r].kind = "raise")
        => response[r] = Response(Jsonify(ErrorDict(returned[r].msg)), 500)

\* C4: when llm.invoke returns a message, the response is 200 and carries
\* exactly the message's content as a JSON string.
C4_SuccessReturnsContent ==
    \A r \in Requests :
        returned[r].kind = "message"
        => /\ Done(r)
           /\ response[r] = Response(Jsonify(PyStr(returned[r].content)), 200)

C4_Witness ==
    \E r \in Requests : Done(r) /\ returned[r].kind = "message" /\ TextOf(r) /= ""

C6_AtMostOneCall ==
    \A r \in Requests :
        /\ Len(invoked[r]) <= 1
        /\ returned[r].kind = "raise"
           => /\ Done(r)
              /\ Len(invoked[r]) = 1
              /\ response[r].body = Jsonify(ErrorDict(returned[r].msg))

C6_Witness ==
    \E r \in Requests : Done(r) /\ returned[r].kind = "raise" /\ Len(invoked[r]) = 1

\* C7: when the client cannot be constructed (no API key, or ChatGroq
\* raises), an authorized request with a text field is answered 500 with
\* an error message and llm.invoke is never called for it.
CannotConstruct == ~Truthy(GROQ_API_KEY) \/ chatGroqRaises

C7_NoClientIs500 ==
    \A r \in Requests :
        (CannotConstruct /\ PassedAuth(r) /\ TextPresent(r))
        => /\ pc[r] \in {"validate", "init", "done"}
           /\ invoked[r] = <<>>
           /\ Done(r) => response[r] = RespInitFailed

C7_Witness ==
    \E r1, r2 \in Requests :
        /\ CannotConstruct /\ Done(r1) /\ PassedAuth(r1) /\ TextPresent(r1)
        /\ constructions[r1] = 1
        /\ Done(r2) /\ PassedAuth(r2) /\ TextPresent(r2) /\ TextOf(r2) /= TextOf(r1)

\* C8: the date in the prompt is the calendar date on which the request is
\* handled, also when the date has changed since the process started.
C8_PromptDateIsRequestDate ==
    \A r \in Requests : \A i \in DOMAIN invoked[r] :
        BearerOfSecret(r)
        => invoked[r][i].prompt = InputPrompt(Strftime(invoked[r][i].date), PyStr(TextOf(r)))

\* C9: no step of any request changes the configuration, and two requests
\* with the same header, the same body and the same reply from the service
\* get the same response, however their steps interleave.
SameInputs(r1, r2) == request[r1] = request[r2] /\ returned[r1] = returned[r2]

C9_Independent ==
    \A r1, r2 \in Requests :
        (Done(r1) /\ Done(r2) /\ SameInputs(r1, r2)) => response[r1] = response[r2]

C10_StepsOrdered ==
    \A r \in Requests :
        /\ (constructions[r] > 0 \/ invoked[r] /= <<>>)
           => (PassedAuth(r) /\ TextPresent(r))
        /\ invoked[r] /= <<>> => (constructions[r] = 1 /\ ~IsNone(llm[r]))
        /\ (Done(r) /\ response[r].status \in {400, 401})
           => (constructions[r] = 0 /\ invoked[r] = <<>>)

C10_Witness ==
    \E r1, r2 \in Requests :
        /\ Done(r1) /\ response[r1].status = 400 /\ PassedAuth(r1)
        /\ Done(r2) /\ invoked[r2] /= <<>> /\ constructions[r2] = 1

====
